---- MODULE Spec2Model ----
(***************************************************************************)
(* Model of the PDF merge service (src/main.py): the request handler       *)
(* merge_pdf_files and its helpers get_sorted_pdf_paths, merge_pdfs,       *)
(* compress_with_ghostscript and encrypt_pdf, over a small POSIX file      *)
(* system.  Strings that the code inspects (file names, paths) are         *)
(* sequences of code points, so that lower(), endswith(), os.path.join and *)
(* sorted() are computed as Python computes them.                          *)
(***************************************************************************)
EXTENDS Integers, Sequences, FiniteSets, TLC

(* ------------------------------ bounds ---------------------------------- *)
\* largest number of uploads in one request
MaxFiles == 2

(* ------------------------- strings (code points) ------------------------ *)
DotPdf == <<46,112,100,102>>                       \* ".pdf"
TmpRoot == <<47,116>>                              \* "/t", the temp root
InputName == <<105,110,112,117,116>>               \* "input"
OutputName == <<111,117,116,112,117,116>>          \* "output"
MergedName == <<109,101,114,103,101,100,46,112,100,102>>   \* "merged.pdf"
MergedTmpName == <<109,101,114,103,101,100,46,116,109,112,46,112,100,102>>
                                                   \* "merged.tmp.pdf"
MergedEncName == <<109,101,114,103,101,100,46,101,110,99,114,121,112,116,101,100,46,112,100,102>>
                                                   \* "merged.encrypted.pdf"
Name_a == <<97,46,112,100,102>>                    \* "a.pdf"
Name_B == <<66,46,80,68,70>>                       \* "B.PDF"
Name_txt == <<114,46,116,120,116>>                 \* "r.txt"
Name_empty == <<>>                                 \* ""
Name_up == <<46,46,47,120,46,112,100,102>>         \* "../x.pdf"
Name_sub == <<115,47,121,46,112,100,102>>          \* "s/y.pdf"
Name_abs == <<47,116,47,122,46,112,100,102>>       \* "/t/z.pdf"

\* the file names an upload may declare
UploadNames == {Name_a, Name_B, Name_txt, Name_empty, Name_up, Name_sub, Name_abs}

\* str.lower() on ASCII
lower(s) == [i \in 1..Len(s) |-> IF s[i] \in 65..90 THEN s[i] + 32 ELSE s[i]]

\* str.endswith(suffix)
endswith(s, suffix) ==
    /\ Len(s) >= Len(suffix)
    /\ SubSeq(s, Len(s) - Len(suffix) + 1, Len(s)) = suffix

\* Python's str ordering: code point by code point, a proper prefix first
StrLess(a, b) ==
    \E i \in 1..(Len(a) + 1) :
        /\ i <= Len(b)
        /\ \A j \in 1..(i - 1) : a[j] = b[j]
        /\ (i = Len(a) + 1 \/ a[i] < b[i])

\* sorted() of a set of strings
RECURSIVE sorted(_)
sorted(S) ==
    IF S = {} THEN <<>>
    ELSE LET m == CHOOSE x \in S : \A y \in S \ {x} : StrLess(x, y)
         IN  <<m>> \o sorted(S \ {m})

\* posixpath.join(a, b)
join(a, b) ==
    IF b # <<>> /\ b[1] = 47 THEN b
    ELSE IF a = <<>> \/ a[Len(a)] = 47 THEN a \o b
    ELSE a \o <<47>> \o b

(* ----------------------------- file system ------------------------------ *)
\* the components of a path string, split at "/"
RECURSIVE Components(_, _)
Components(s, cur) ==
    IF s = <<>> THEN <<cur>>
    ELSE IF Head(s) = 47 THEN <<cur>> \o Components(Tail(s), <<>>)
    ELSE Components(Tail(s), Append(cur, Head(s)))

Parent(p) == IF p = <<>> THEN p ELSE SubSeq(p, 1, Len(p) - 1)

\* kernel path walk from directory cur: "" and "." stay, ".." goes up, every
\* component but the last must be an existing directory
RECURSIVE Walk(_, _, _)
Walk(ds, cur, comps) ==
    IF comps = <<>> THEN [ok |-> TRUE, path |-> cur]
    ELSE LET c == Head(comps) rest == Tail(comps) IN
         IF c = <<>> \/ c = <<46>> THEN Walk(ds, cur, rest)
         ELSE IF c = <<46,46>> THEN Walk(ds, Parent(cur), rest)
         ELSE IF rest = <<>> THEN [ok |-> TRUE, path |-> Append(cur, c)]
         ELSE IF Append(cur, c) \in ds THEN Walk(ds, Append(cur, c), rest)
         ELSE [ok |-> FALSE, path |-> <<>>]

\* resolution of an absolute path string to a canonical component list
Resolve(ds, p) == Walk(ds, <<>>, Components(p, <<>>))

\* open(p, "wb") succeeds: the parent exists and p is not a directory
CanWrite(ds, p) ==
    LET r == Resolve(ds, p) IN
    r.ok /\ r.path # <<>> /\ Parent(r.path) \in ds /\ r.path \notin ds

IsPrefix(d, p) == Len(d) <= Len(p) /\ SubSeq(p, 1, Len(d)) = d

\* shutil.rmtree(d) on the files and on the directories
RmFiles(f, d) == [p \in {q \in DOMAIN f : ~IsPrefix(d, q)} |-> f[p]]
RmDirs(ds, d) == {q \in ds : ~IsPrefix(d, q)}

\* f with the file at canonical path p set to content c
WriteFile(f, p, c) == [q \in DOMAIN f \cup {p} |-> IF q = p THEN c ELSE f[q]]
RemoveFile(f, p) == [q \in DOMAIN f \ {p} |-> f[q]]

\* os.listdir(d): the names of the entries directly in d
listdir(f, ds, d) ==
    {q[Len(q)] : q \in {x \in DOMAIN f \cup ds : Len(x) = Len(d) + 1 /\ IsPrefix(d, x)}}

(* ------------------------------ documents ------------------------------- *)
\* a parseable PDF: its pages in order, whether its content streams were
\* recompressed (builtin), the Ghostscript preset it was rewritten with ("" if
\* none) and the password it is encrypted with ("" if none)
Doc(pages) == [pdf |-> TRUE, pages |-> pages, flate |-> FALSE, gs |-> "", enc |-> ""]
\* bytes that are no PDF
Garbage == [pdf |-> FALSE, pages |-> <<>>, flate |-> FALSE, gs |-> "", enc |-> ""]

\* the byte contents an upload may carry
UploadContents == {Doc(<<1>>), Doc(<<2, 3>>), Garbage}

\* Optional[str]
None == [some |-> FALSE, str |-> ""]
Some(s) == [some |-> TRUE, str |-> s]
\* truth value of an Optional[str] (None and "" are false)
Truthy(p) == p.some /\ p.str # ""

RECURSIVE Concat(_)
Concat(ss) == IF ss = <<>> THEN <<>> ELSE Head(ss) \o Concat(Tail(ss))

(* --------------------------- helpers of main.py ------------------------- *)
\* get_sorted_pdf_paths(input_dir), on file system (f, ds)
get_sorted_pdf_paths(f, ds, input_dir) ==
    LET d == Resolve(ds, input_dir).path
        pdf_files == {join(input_dir, filename) :
                        filename \in {n \in listdir(f, ds, d) : endswith(lower(n), DotPdf)}}
    IN  sorted(pdf_files)

\* the content PdfWriter.append / PdfReader reads at path string p
ReadAt(f, ds, p) ==
    LET r == Resolve(ds, p) IN
    IF r.ok /\ r.path \in DOMAIN f THEN f[r.path] ELSE Garbage

Readable(f, ds, p) ==
    LET r == Resolve(ds, p) IN r.ok /\ r.path \in DOMAIN f /\ f[r.path].pdf

\* merge_pdfs(input_paths, output_path, compress_builtin, password): whether it
\* raises, and the document writer.write() serializes
merge_pdfs(f, ds, input_paths, compress_builtin, password) ==
    IF \E i \in 1..Len(input_paths) : ~Readable(f, ds, input_paths[i])
    THEN [raised |-> TRUE, doc |-> Garbage]
    ELSE [raised |-> FALSE,
          doc |-> [pdf |-> TRUE,
                   pages |-> Concat([i \in 1..Len(input_paths) |->
                                        ReadAt(f, ds, input_paths[i]).pages]),
                   flate |-> compress_builtin,
                   gs |-> "",
                   enc |-> IF Truthy(password) THEN password.str ELSE ""]]

\* what the host does when asked for Ghostscript: no executable on the search
\* path, the process cannot be spawned, it exits nonzero (having written nothing
\* or a truncated file), it exits 0 (having written its output or not)
ToolOutcomes == {"absent", "spawn_error", "exit_nonzero", "exit_nonzero_partial",
                 "exit_zero", "exit_zero_no_output"}

\* compress_with_ghostscript(input_pdf, output_pdf, quality) under tool outcome o:
\* whether it raises, its return value, and what the process left at output_pdf
compress_with_ghostscript(o, input_doc, quality) ==
    CASE o = "absent" ->
            [raised |-> FALSE, value |-> FALSE, wrote |-> FALSE, doc |-> Garbage]
      [] o = "spawn_error" ->
            [raised |-> TRUE, value |-> FALSE, wrote |-> FALSE, doc |-> Garbage]
      [] o = "exit_nonzero" ->
            [raised |-> FALSE, value |-> FALSE, wrote |-> FALSE, doc |-> Garbage]
      [] o = "exit_nonzero_partial" ->
            [raised |-> FALSE, value |-> FALSE, wrote |-> TRUE, doc |-> Garbage]
      [] o = "exit_zero" ->
            [raised |-> FALSE, value |-> TRUE, wrote |-> TRUE,
             doc |-> [input_doc EXCEPT !.gs = quality]]
      [] o = "exit_zero_no_output" ->
            [raised |-> FALSE, value |-> TRUE, wrote |-> FALSE, doc |-> Garbage]

\* encrypt_pdf(input_pdf, output_pdf, password): whether it raises, and the
\* document it writes
encrypt_pdf(f, ds, input_pdf, password) ==
    IF ~Readable(f, ds, input_pdf)
    THEN [raised |-> TRUE, doc |-> Garbage]
    ELSE [raised |-> FALSE, doc |-> [ReadAt(f, ds, input_pdf) EXCEPT !.enc = password]]

(* -------------------------------- state --------------------------------- *)
\* the requests the service may be handling
ReqIds == {1, 2}

VARIABLES
    fs,                \* canonical path -> content of the regular file there
    dirs,              \* canonical paths of the directories
    pc,                \* where each request is in merge_pdf_files
    form,              \* files, compress, quality, password of each request
    idx,               \* position of the staging loop in files
    pdf_paths,         \* the local pdf_paths
    background_tasks,  \* tasks added to BackgroundTasks
    finalizer,         \* the TemporaryDirectory's finalizer is still armed
    exc,               \* the exception in flight inside the try block
    tool,              \* what the host did when Ghostscript was asked for
    response,          \* what the client received
    cleanup_calls,     \* history: number of calls of temp_dir.cleanup
    reads,             \* history: number of calls of file.read
    calls              \* history: the file and helper calls made, in order

vars == <<fs, dirs, pc, form, idx, pdf_paths, background_tasks, finalizer, exc,
          tool, response, cleanup_calls, reads, calls>>

NoForm == [files |-> <<>>, compress |-> "none", quality |-> "ebook", password |-> None]
NoExc == [type |-> "", status_code |-> 0]
NoResponse == [status |-> 0, body |-> Garbage]

\* tempfile.TemporaryDirectory().name: unique per request
temp_path(r) == TmpRoot \o <<47, 119, 48 + r>>
input_dir(r) == join(temp_path(r), InputName)
output_dir(r) == join(temp_path(r), OutputName)
merged_pdf_path(r) == join(output_dir(r), MergedName)
temp_merged(r) == join(output_dir(r), MergedTmpName)
temp_encrypted(r) == join(output_dir(r), MergedEncName)

\* canonical path of a path string that resolves
Canon(ds, p) == Resolve(ds, p).path
\* canonical path of the workspace of request r
WsDir(r) == << <<116>>, <<119, 48 + r>> >>

Exists(f, ds, p) == Resolve(ds, p).ok /\ Canon(ds, p) \in DOMAIN f

valid_compress == {"none", "builtin", "ghostscript"}
valid_quality == {"ebook", "printer", "prepress"}

\* the form values a client may send
Uploads == [filename : UploadNames, content : UploadContents]
FileLists == UNION {[1..n -> Uploads] : n \in 1..MaxFiles}
CompressValues == {"none", "builtin", "ghostscript", "turbo"}
QualityValues == {"ebook", "screen"}
PasswordValues == {None, Some(""), Some("pw")}

Init ==
    /\ fs = [p \in {} |-> Garbage]
    /\ dirs = {<<>>, << <<116>> >>}
    /\ pc = [r \in ReqIds |-> "idle"]
    /\ form = [r \in ReqIds |-> NoForm]
    /\ idx = [r \in ReqIds |-> 1]
    /\ pdf_paths = [r \in ReqIds |-> <<>>]
    /\ background_tasks = [r \in ReqIds |-> <<>>]
    /\ finalizer = [r \in ReqIds |-> FALSE]
    /\ exc = [r \in ReqIds |-> NoExc]
    /\ tool = [r \in ReqIds |-> ""]
    /\ response = [r \in ReqIds |-> NoResponse]
    /\ cleanup_calls = [r \in ReqIds |-> 0]
    /\ reads = [r \in ReqIds |-> 0]
    /\ calls = [r \in ReqIds |-> <<>>]

(* ------------------------- merge_pdf_files, by step --------------------- *)
HTTPException(code) == [type |-> "HTTPException", status_code |-> code]
OSError == [type |-> "OSError", status_code |-> 0]
PdfReadError == [type |-> "PdfReadError", status_code |-> 0]
CancelledError == [type |-> "CancelledError", status_code |-> 0]

\* one entry of the call history: the function and, for merge_pdfs and
\* encrypt_pdf, the compress_builtin and password arguments
Call(fn, compress_builtin, password) ==
    [fn |-> fn, compress_builtin |-> compress_builtin, password |-> password]

\* the framework hands the handler a parsed multipart form
Receive(r) ==
    /\ pc[r] = "idle"
    /\ \E fl \in FileLists, c \in CompressValues, q \in QualityValues,
          pw \in PasswordValues :
          form' = [form EXCEPT ![r] =
                      [files |-> fl, compress |-> c, quality |-> q, password |-> pw]]
    /\ pc' = [pc EXCEPT ![r] = "validate"]
    /\ UNCHANGED <<fs, dirs, idx, pdf_paths, background_tasks, finalizer, exc,
                   tool, response, cleanup_calls, reads, calls>>

\* mutant: the quality is checked in every mode
ValidateRejects_AnyMode(compress, quality) ==
    \/ compress \notin valid_compress
    \/ quality \notin valid_quality

\* whether lines 32-38 raise HTTPException(400)
ValidateRejects(compress, quality) ==
    \/ compress \notin valid_compress
    \/ compress = "ghostscript" /\ quality \notin valid_quality

\* lines 32-38: raised outside the try block, so the client gets the 400
Validate(r) ==
    /\ pc[r] = "validate"
    /\ IF ValidateRejects(form[r].compress, form[r].quality)
       THEN /\ response' = [response EXCEPT ![r] = [status |-> 400, body |-> Garbage]]
            /\ pc' = [pc EXCEPT ![r] = "done"]
       ELSE /\ pc' = [pc EXCEPT ![r] = "create"]
            /\ UNCHANGED response
    /\ UNCHANGED <<fs, dirs, form, idx, pdf_paths, background_tasks, finalizer,
                   exc, tool, cleanup_calls, reads, calls>>

\* lines 41-48: the workspace and the scheduled cleanup
CreateWorkspace(r) ==
    /\ pc[r] = "create"
    /\ dirs' = dirs \cup {WsDir(r), Append(WsDir(r), InputName),
                          Append(WsDir(r), OutputName)}
    /\ finalizer' = [finalizer EXCEPT ![r] = TRUE]
    /\ background_tasks' = [background_tasks EXCEPT ![r] = Append(@, "temp_dir.cleanup")]
    /\ idx' = [idx EXCEPT ![r] = 1]
    /\ pc' = [pc EXCEPT ![r] = "stage"]
    /\ UNCHANGED <<fs, form, pdf_paths, exc, tool, response, cleanup_calls, reads, calls>>

\* line 53: the name check of one upload
NameRejected(filename) == filename = <<>> \/ ~endswith(lower(filename), DotPdf)

\* lines 52-58: one iteration of the staging loop
Stage(r) ==
    /\ pc[r] = "stage"
    /\ LET file == form[r].files[idx[r]]
           file_path == join(input_dir(r), file.filename)
       IN  IF NameRejected(file.filename)
           THEN /\ exc' = [exc EXCEPT ![r] = HTTPException(400)]
                /\ pc' = [pc EXCEPT ![r] = "except"]
                /\ UNCHANGED <<fs, idx, reads, calls>>
           ELSE /\ reads' = [reads EXCEPT ![r] = @ + 1]
                /\ calls' = [calls EXCEPT ![r] = Append(@, Call("open", FALSE, None))]
                /\ IF ~CanWrite(dirs, file_path)
                   THEN /\ exc' = [exc EXCEPT ![r] = OSError]
                        /\ pc' = [pc EXCEPT ![r] = "except"]
                        /\ UNCHANGED <<fs, idx>>
                   ELSE /\ fs' = WriteFile(fs, Canon(dirs, file_path), file.content)
                        /\ idx' = [idx EXCEPT ![r] = @ + 1]
                        /\ pc' = [pc EXCEPT ![r] =
                                    IF idx[r] = Len(form[r].files) THEN "list" ELSE "stage"]
                        /\ UNCHANGED exc
    /\ UNCHANGED <<dirs, form, pdf_paths, background_tasks, finalizer, tool,
                   response, cleanup_calls>>

\* line 56: the request's task is cancelled while it is suspended in
\* await file.read(); CancelledError is a BaseException, which the
\* except Exception of line 92 does not catch, so it leaves the handler; no
\* response is returned and no background task is run
Cancel(r) ==
    /\ pc[r] = "stage"
    /\ ~NameRejected(form[r].files[idx[r]].filename)
    /\ exc' = [exc EXCEPT ![r] = CancelledError]
    /\ pc' = [pc EXCEPT ![r] = "done"]
    /\ UNCHANGED <<fs, dirs, form, idx, pdf_paths, background_tasks, finalizer,
                   tool, response, cleanup_calls, reads, calls>>

\* lines 61-63
ListInputs(r) ==
    /\ pc[r] = "list"
    /\ LET paths == get_sorted_pdf_paths(fs, dirs, input_dir(r))
       IN  /\ pdf_paths' = [pdf_paths EXCEPT ![r] = paths]
           /\ IF paths = <<>>
              THEN /\ exc' = [exc EXCEPT ![r] = HTTPException(400)]
                   /\ pc' = [pc EXCEPT ![r] = "except"]
              ELSE /\ pc' = [pc EXCEPT ![r] = "merge"]
                   /\ UNCHANGED exc
    /\ UNCHANGED <<fs, dirs, form, idx, background_tasks, finalizer, tool,
                   response, cleanup_calls, reads, calls>>

\* mutant: the ghostscript branch merges with builtin compression too
MergeBuiltin_NotNone(compress) == compress # "none"

\* mutant: no branch hands the password to merge_pdfs
MergePassword_Dropped(compress, password) == None

\* mutant: the merge is given the password in every mode
MergePassword_Always(compress, password) == password

\* the arguments of the one merge_pdfs call, lines 68-72
MergeBuiltin(compress) == compress = "builtin"
MergePassword(compress, password) ==
    IF compress \in {"builtin", "none"} THEN password ELSE None

\* line 119: writer.write(output_file) writes the whole document, or fails
\* part-way (the disk is full) and leaves a truncated file
WriteOutcomes == {"written", "partial"}

\* lines 65-72
Merge(r) ==
    /\ pc[r] = "merge"
    /\ LET m == merge_pdfs(fs, dirs, pdf_paths[r], MergeBuiltin(form[r].compress),
                           MergePassword(form[r].compress, form[r].password))
       IN  /\ calls' = [calls EXCEPT ![r] =
                  Append(@, Call("merge_pdfs", MergeBuiltin(form[r].compress),
                                 MergePassword(form[r].compress, form[r].password)))]
           /\ IF m.raised
              THEN /\ exc' = [exc EXCEPT ![r] = PdfReadError]
                   /\ pc' = [pc EXCEPT ![r] = "except"]
                   /\ UNCHANGED fs
              ELSE \E w \in WriteOutcomes :
                     IF w = "written"
                     THEN /\ fs' = WriteFile(fs, Canon(dirs, merged_pdf_path(r)), m.doc)
                          /\ pc' = [pc EXCEPT ![r] = "compress"]
                          /\ UNCHANGED exc
                     ELSE /\ fs' = WriteFile(fs, Canon(dirs, merged_pdf_path(r)), Garbage)
                          /\ exc' = [exc EXCEPT ![r] = OSError]
                          /\ pc' = [pc EXCEPT ![r] = "except"]
    /\ UNCHANGED <<dirs, form, idx, pdf_paths, background_tasks, finalizer, tool,
                   response, cleanup_calls, reads>>

\* lines 77-82: the files of the output directory after the rename, the tool
\* run g and the removal or the rename back
AfterCompress(f, merged, tmp, g) ==
    LET renamed == WriteFile(RemoveFile(f, merged), tmp, f[merged])
        ran == IF g.wrote THEN WriteFile(renamed, merged, g.doc) ELSE renamed
    IN  IF g.raised THEN ran
        ELSE IF g.value THEN RemoveFile(ran, tmp)
        ELSE WriteFile(RemoveFile(ran, tmp), merged, ran[tmp])

\* lines 75-82
Compress(r) ==
    /\ pc[r] = "compress"
    /\ IF form[r].compress = "ghostscript"
       THEN \E o \in ToolOutcomes :
              LET merged == Canon(dirs, merged_pdf_path(r))
                  tmp == Canon(dirs, temp_merged(r))
                  g == compress_with_ghostscript(o, fs[merged], form[r].quality)
              IN  /\ tool' = [tool EXCEPT ![r] = o]
                  /\ calls' = [calls EXCEPT ![r] =
                         Append(@, Call("compress_with_ghostscript", FALSE, None))]
                  /\ fs' = AfterCompress(fs, merged, tmp, g)
                  /\ IF g.raised
                     THEN /\ exc' = [exc EXCEPT ![r] = OSError]
                          /\ pc' = [pc EXCEPT ![r] = "except"]
                     ELSE /\ pc' = [pc EXCEPT ![r] = "encrypt"]
                          /\ UNCHANGED exc
       ELSE /\ pc' = [pc EXCEPT ![r] = "encrypt"]
            /\ UNCHANGED <<fs, exc, tool, calls>>
    /\ UNCHANGED <<dirs, form, idx, pdf_paths, background_tasks, finalizer,
                   response, cleanup_calls, reads>>

\* mutant: the post-compression encryption runs in ghostscript mode whether
\* or not a password was given
EncryptsAfter_IgnoresPassword(compress, password) == compress = "ghostscript"

\* line 85: whether the post-compression encryption runs
EncryptsAfter(compress, password) == Truthy(password) /\ compress = "ghostscript"

\* lines 87-88: the files after encrypt_pdf wrote doc to the temporary name and
\* os.replace moved it over the merged file
AfterEncrypt(f, merged, encrypted, doc) ==
    LET written == WriteFile(f, encrypted, doc)
    IN  WriteFile(RemoveFile(written, encrypted), merged, written[encrypted])

\* lines 85-88
Encrypt(r) ==
    /\ pc[r] = "encrypt"
    /\ IF EncryptsAfter(form[r].compress, form[r].password)
       THEN LET e == encrypt_pdf(fs, dirs, merged_pdf_path(r), form[r].password.str)
            IN  /\ calls' = [calls EXCEPT ![r] =
                       Append(@, Call("encrypt_pdf", FALSE, form[r].password))]
                /\ IF e.raised
                   THEN /\ exc' = [exc EXCEPT ![r] = OSError]
                        /\ pc' = [pc EXCEPT ![r] = "except"]
                        /\ UNCHANGED fs
                   ELSE /\ fs' = AfterEncrypt(fs, Canon(dirs, merged_pdf_path(r)),
                                              Canon(dirs, temp_encrypted(r)), e.doc)
                        /\ pc' = [pc EXCEPT ![r] = "return"]
                        /\ UNCHANGED exc
       ELSE /\ pc' = [pc EXCEPT ![r] = "return"]
            /\ UNCHANGED <<fs, exc, calls>>
    /\ UNCHANGED <<dirs, form, idx, pdf_paths, background_tasks, finalizer, tool,
                   response, cleanup_calls, reads>>

\* mutant: the workspace is removed when the handler returns (a with block
\* around the TemporaryDirectory)
Return_CleansUp(r) ==
    /\ pc[r] = "return"
    /\ fs' = RmFiles(fs, WsDir(r))
    /\ dirs' = RmDirs(dirs, WsDir(r))
    /\ finalizer' = [finalizer EXCEPT ![r] = FALSE]
    /\ pc' = [pc EXCEPT ![r] = "send"]
    /\ UNCHANGED <<form, idx, pdf_paths, background_tasks, exc, tool, response,
                   cleanup_calls, reads, calls>>

\* line 90: the handler returns a FileResponse naming merged_pdf_path; the
\* framework attaches the background tasks to it
Return(r) ==
    /\ pc[r] = "return"
    /\ pc' = [pc EXCEPT ![r] = "send"]
    /\ UNCHANGED <<fs, dirs, form, idx, pdf_paths, background_tasks, finalizer,
                   exc, tool, response, cleanup_calls, reads, calls>>

\* temp_dir.cleanup(): the tree is removed and the finalizer detached
CleanupFiles(f, r) == RmFiles(f, WsDir(r))
CleanupDirs(ds, r) == RmDirs(ds, WsDir(r))

\* lines 92-94: every Exception raised inside the try block is caught, and the
\* workspace is cleaned up at once
Except(r) ==
    /\ pc[r] = "except"
    /\ fs' = CleanupFiles(fs, r)
    /\ dirs' = CleanupDirs(dirs, r)
    /\ finalizer' = [finalizer EXCEPT ![r] = FALSE]
    /\ cleanup_calls' = [cleanup_calls EXCEPT ![r] = @ + 1]
    /\ pc' = [pc EXCEPT ![r] = "raise"]
    /\ UNCHANGED <<form, idx, pdf_paths, background_tasks, exc, tool, response, reads, calls>>

\* mutant: the caught exception is answered as a client error
ExceptStatus_BadRequest(e) == 400

\* the status_code of the HTTPException line 95 raises for the caught exception e
ExceptStatus(e) == 500

\* line 95: the handler raises, the framework answers with the exception's
\* status and runs no background task
Raise(r) ==
    /\ pc[r] = "raise"
    /\ response' = [response EXCEPT ![r] =
                       [status |-> ExceptStatus(exc[r]), body |-> Garbage]]
    /\ pc' = [pc EXCEPT ![r] = "done"]
    /\ UNCHANGED <<fs, dirs, form, idx, pdf_paths, background_tasks, finalizer,
                   exc, tool, cleanup_calls, reads, calls>>

\* the framework sends the FileResponse of line 90: the file is read when the
\* response is sent; a path that names no file fails the send, and the
\* background tasks of a failed send are not run
Send(r) ==
    /\ pc[r] = "send"
    /\ IF Exists(fs, dirs, merged_pdf_path(r))
       THEN /\ response' = [response EXCEPT ![r] =
                   [status |-> 200, body |-> ReadAt(fs, dirs, merged_pdf_path(r))]]
            /\ pc' = [pc EXCEPT ![r] = "background"]
       ELSE /\ response' = [response EXCEPT ![r] = [status |-> 500, body |-> Garbage]]
            /\ pc' = [pc EXCEPT ![r] = "done"]
    /\ UNCHANGED <<fs, dirs, form, idx, pdf_paths, background_tasks, finalizer,
                   exc, tool, cleanup_calls, reads, calls>>

\* line 48: the task added to background_tasks runs after the response is sent
RunBackground(r) ==
    /\ pc[r] = "background"
    /\ background_tasks[r] # <<>>
    /\ fs' = CleanupFiles(fs, r)
    /\ dirs' = CleanupDirs(dirs, r)
    /\ finalizer' = [finalizer EXCEPT ![r] = FALSE]
    /\ cleanup_calls' = [cleanup_calls EXCEPT ![r] = @ + 1]
    /\ background_tasks' = [background_tasks EXCEPT ![r] = Tail(@)]
    /\ pc' = [pc EXCEPT ![r] = "done"]
    /\ UNCHANGED <<form, idx, pdf_paths, exc, tool, response, reads, calls>>

\* line 41: a TemporaryDirectory that was never cleaned up removes its tree
\* when the object is garbage collected, some time after the request is over
Finalize(r) ==
    /\ pc[r] = "done"
    /\ finalizer[r]
    /\ fs' = CleanupFiles(fs, r)
    /\ dirs' = CleanupDirs(dirs, r)
    /\ finalizer' = [finalizer EXCEPT ![r] = FALSE]
    /\ UNCHANGED <<pc, form, idx, pdf_paths, background_tasks, exc, tool,
                   response, cleanup_calls, reads, calls>>

Handle(r) ==
    \/ Receive(r)
    \/ Validate(r)
    \/ CreateWorkspace(r)
    \/ Stage(r)
    \/ Cancel(r)
    \/ ListInputs(r)
    \/ Merge(r)
    \/ Compress(r)
    \/ Encrypt(r)
    \/ Return(r)
    \/ Except(r)
    \/ Raise(r)
    \/ Send(r)
    \/ RunBackground(r)
    \/ Finalize(r)

\* one request at a time
Next == Handle(1)

\* the other request
Other(r) == IF r = 1 THEN 2 ELSE 1

\* an upload name that resolves into the input directory of the other request's
\* workspace: "../../w<other>/input/a.pdf"
CrossName(r) ==
    <<46,46,47,46,46,47,119, 48 + Other(r)>> \o <<47>> \o InputName \o <<47>> \o Name_a

\* the forms of the concurrent runs: one upload each, request 1 uploading the
\* page 1 and request 2 the pages 2 and 3
ConcFiles(r) ==
    {<<[filename |-> n, content |-> IF r = 1 THEN Doc(<<1>>) ELSE Doc(<<2, 3>>)]>> :
        n \in {Name_a, Name_txt, CrossName(r)}}

ReceiveConc(r) ==
    /\ pc[r] = "idle"
    /\ \E fl \in ConcFiles(r), c \in {"none", "ghostscript"}, pw \in {None, Some("pw")} :
          form' = [form EXCEPT ![r] =
                      [files |-> fl, compress |-> c, quality |-> "ebook", password |-> pw]]
    /\ pc' = [pc EXCEPT ![r] = "validate"]
    /\ UNCHANGED <<fs, dirs, idx, pdf_paths, background_tasks, finalizer, exc,
                   tool, response, cleanup_calls, reads, calls>>

\* two requests handled concurrently, their steps interleaved
ConcNext ==
    \E r \in ReqIds :
        \/ ReceiveConc(r)
        \/ Validate(r)
        \/ CreateWorkspace(r)
        \/ Stage(r)
        \/ Cancel(r)
        \/ ListInputs(r)
        \/ Merge(r)
        \/ Compress(r)
        \/ Encrypt(r)
        \/ Return(r)
        \/ Except(r)
        \/ Raise(r)
        \/ Send(r)
        \/ RunBackground(r)
        \/ Finalize(r)

ConcSpec == Init /\ [][ConcNext]_vars

Spec == Init /\ [][Next]_vars

(* ------------------------------- claims --------------------------------- *)
\* the request is over: the response went out and no step of it is left but
\* the garbage collection of its objects
Done(r) == pc[r] = "done"
\* the request created a workspace (line 48 ran)
Created(r) == background_tasks[r] # <<>> \/ cleanup_calls[r] > 0
\* the request was cancelled while it was suspended
Cancelled(r) == exc[r] = CancelledError
\* the workspace directory of the request is on disk
OnDisk(r) == WsDir(r) \in dirs
Filenames(r) == {form[r].files[i].filename : i \in 1..Len(form[r].files)}
\* the contents uploaded under name n, in request order
RECURSIVE LastWith(_, _)
LastWith(files, n) ==
    IF files[Len(files)].filename = n THEN files[Len(files)].content
    ELSE LastWith(SubSeq(files, 1, Len(files) - 1), n)

\* C1: a successful request in mode none or builtin whose uploads have pairwise
\* distinct names ending in .pdf returns the uploads' pages concatenated in
\* code point order of the file names.
C1_PagesInFilenameOrder ==
    \A r \in ReqIds :
        ( /\ response[r].status = 200
          /\ form[r].compress \in {"none", "builtin"}
          /\ Cardinality(Filenames(r)) = Len(form[r].files)
          /\ \A n \in Filenames(r) : endswith(lower(n), DotPdf) )
        => response[r].body.pages =
               Concat([i \in 1..Len(form[r].files) |->
                          LastWith(form[r].files, sorted(Filenames(r))[i]).pages])

\* C2: once a request is over, whether it ended in a successful response, a
\* validation failure or an exception raised by a stage (a cancelled request is
\* C11's case), its workspace directory is not on disk.
C2_NoWorkspaceAfterRequest ==
    \A r \in ReqIds : (Done(r) /\ ~Cancelled(r)) => ~OnDisk(r)

\* C3: a request aborted for an invalid upload name or for an empty ordered
\* input list (the two HTTPException(400) of the try block) is answered with
\* status 400.
C3_ValidationAnswered400 ==
    \A r \in ReqIds :
        (Done(r) /\ exc[r] = HTTPException(400)) => response[r].status = 400

\* C4: a request is rejected with 400 before the workspace exists exactly when
\* its compress value is not an allowed mode, or the mode is ghostscript and the
\* quality is not allowed; such a rejection precedes every read and write of
\* an upload.
C4_ValidationExact ==
    \A r \in ReqIds :
        pc[r] \notin {"idle", "validate"} =>
            LET rejected == Done(r) /\ response[r].status = 400 /\ ~Created(r)
                unknownMode == form[r].compress \notin {"none", "builtin", "ghostscript"}
                unknownQuality == /\ form[r].compress = "ghostscript"
                                  /\ form[r].quality \notin {"ebook", "printer", "prepress"}
            IN  /\ rejected <=> (unknownMode \/ unknownQuality)
                /\ rejected => (reads[r] = 0 /\ idx[r] = 1 /\ DOMAIN fs = {} /\ ~OnDisk(r))

C4_Witness ==
    \E r \in ReqIds :
        /\ Done(r) /\ response[r].status = 400 /\ ~Created(r)
        /\ form[r].compress = "ghostscript" /\ form[r].quality = "screen"

\* C5: the document of a successful response is encrypted with the supplied
\* password if the password is present and non-empty, and is not encrypted
\* otherwise, in every mode and whatever the external tool did.
C5_EncryptedIffPassword ==
    \A r \in ReqIds :
        response[r].status = 200 =>
            response[r].body.enc =
                (IF form[r].password.some /\ form[r].password.str # ""
                 THEN form[r].password.str ELSE "")

C5_Witness ==
    \E r \in ReqIds :
        /\ response[r].status = 200
        /\ form[r].compress = "ghostscript" /\ tool[r] = "absent"
        /\ form[r].password = Some("pw") /\ response[r].body.enc = "pw"

\* C6: when the external tool is absent, cannot be spawned or exits nonzero,
\* nothing is raised and the request ends in a successful response.
C6_ToolFailureNeverAnError ==
    \A r \in ReqIds :
        tool[r] \in {"absent", "spawn_error", "exit_nonzero", "exit_nonzero_partial"}
        => /\ pc[r] \notin {"except", "raise"}
           /\ Done(r) => response[r].status = 200

\* C7: with no password, the document a ghostscript request returns when the
\* tool is absent is the document mode none returns for the same uploads (the
\* merge of the staged inputs with the arguments of mode none; staging does not
\* depend on the mode).
C7_AbsentToolEqualsNone ==
    \A r \in ReqIds :
        ( /\ pc[r] = "background"
          /\ form[r].compress = "ghostscript" /\ tool[r] = "absent"
          /\ ~Truthy(form[r].password) )
        => response[r].body =
              merge_pdfs(fs, dirs, get_sorted_pdf_paths(fs, dirs, input_dir(r)),
                         MergeBuiltin("none"),
                         MergePassword("none", form[r].password)).doc

C7_Witness ==
    \E r \in ReqIds :
        /\ pc[r] = "background"
        /\ form[r].compress = "ghostscript" /\ tool[r] = "absent"
        /\ form[r].password = Some("")
        /\ response[r].status = 200 /\ response[r].body.pages = <<1, 2, 3>>

\* C8: when staging is complete and several uploads carried the same file
\* name, the input partition holds one file of that name, with the content of
\* the last of them.
C8_LastUploadWins ==
    \A r \in ReqIds :
        pc[r] = "list" =>
            \A n \in Filenames(r) :
                Cardinality({i \in 1..Len(form[r].files) : form[r].files[i].filename = n}) > 1
                => LET p == Append(Append(WsDir(r), InputName), n)
                   IN  /\ n \in listdir(fs, dirs, Append(WsDir(r), InputName))
                       /\ p \in DOMAIN fs
                       /\ fs[p] = LastWith(form[r].files, n)

\* C9: a request that created a workspace and is over (by a normal return, a
\* validation abort or an exception raised by a stage; a cancelled request is
\* C11's case) has called the workspace destruction exactly once.
C9_CleanupExactlyOnce ==
    \A r \in ReqIds :
        (Done(r) /\ Created(r) /\ ~Cancelled(r)) => cleanup_calls[r] = 1

\* C10: until the response of the success path has been sent, the workspace
\* has not been torn down; when the handler raises its error response, the
\* teardown is complete.
C10_TeardownOrder ==
    \A r \in ReqIds :
        /\ pc[r] \in {"stage", "list", "merge", "compress", "encrypt", "return", "send"}
             => (OnDisk(r) /\ cleanup_calls[r] = 0)
        /\ pc[r] = "background" => (OnDisk(r) /\ response[r].status = 200)
        /\ pc[r] = "raise" => (~OnDisk(r) /\ response[r] = NoResponse)

C10_Witness ==
    \E r \in ReqIds :
        /\ Done(r) /\ response[r].status = 200
        /\ cleanup_calls[r] = 1 /\ ~OnDisk(r)

\* C11: a request cancelled after its workspace was created has its workspace
\* torn down and returns no output file.
C11_CancelledRequestCleanedUp ==
    \A r \in ReqIds :
        (Done(r) /\ Cancelled(r) /\ Created(r))
        => (~OnDisk(r) /\ cleanup_calls[r] = 1 /\ response[r].status # 200)

\* the files and directories of the workspace of request r
WsFiles(r) == [p \in {q \in DOMAIN fs : IsPrefix(WsDir(r), q)} |-> fs[p]]
WsDirs(r) == {q \in dirs : IsPrefix(WsDir(r), q)}
\* the request is between the creation of its workspace and its end
InProgress(r) ==
    pc[r] \in {"stage", "list", "merge", "compress", "encrypt", "return", "send",
               "background", "except", "raise"}
\* the step is one of request r
Stepped(r) == pc'[r] # pc[r] \/ idx'[r] # idx[r] \/ finalizer'[r] # finalizer[r]
OwnPages(r) == UNION {{form[r].files[i].content.pages[k] :
                          k \in 1..Len(form[r].files[i].content.pages)} :
                      i \in 1..Len(form[r].files)}

\* C12: under every interleaving of two requests, the document a request
\* returns holds pages of its own uploads only, and no step of one request
\* creates, removes or alters a file or directory in the workspace of the other
\* request while that one is in progress.
C12_RequestsIsolated ==
    /\ [](\A r \in ReqIds :
            response[r].status = 200 =>
                \A k \in 1..Len(response[r].body.pages) :
                    response[r].body.pages[k] \in OwnPages(r))
    /\ [][\A r \in ReqIds :
            (InProgress(r) /\ ~Stepped(r))
            => (WsFiles(r)' = WsFiles(r) /\ WsDirs(r)' = WsDirs(r))]_vars

\* the number of uploads the staging loop has written so far
Written(r) == idx[r] - 1

\* C13: a request with an upload of invalid name, at whatever position, never
\* writes any of its uploads.
C13_InvalidNameNoWrite ==
    \A r \in ReqIds :
        (\E i \in 1..Len(form[r].files) : NameRejected(form[r].files[i].filename))
        => (Written(r) = 0
            /\ listdir(fs, dirs, Append(WsDir(r), InputName)) = {})

\* whether request r has called fn so far
HasCall(r, fn) == \E k \in 1..Len(calls[r]) : calls[r][k].fn = fn

\* lines 79, 139-146: what compress_with_ghostscript returned to request r,
\* when it was called and returned
ReturnedTrue(r) ==
    /\ tool[r] \in ToolOutcomes
    /\ LET g == compress_with_ghostscript(tool[r], Garbage, form[r].quality)
       IN  ~g.raised /\ g.value
ReturnedFalse(r) ==
    /\ tool[r] \in ToolOutcomes
    /\ LET g == compress_with_ghostscript(tool[r], Garbage, form[r].quality)
       IN  ~g.raised /\ ~g.value

\* the handler is past line 88
PastEncrypt(r) == pc[r] \in {"return", "send", "background"}

\* C14 (as stated): in ghostscript mode encrypt_pdf runs only if
\* compress_with_ghostscript returned True and a password was supplied; after
\* a False return encrypt_pdf does not run.
C14_EncryptOnlyAfterTrue ==
    \A r \in ReqIds :
        (form[r].compress = "ghostscript" /\ HasCall(r, "encrypt_pdf"))
        => (ReturnedTrue(r) /\ Truthy(form[r].password))

\* C14 (amended): in ghostscript mode encrypt_pdf runs exactly when a
\* non-empty password was supplied, after compress_with_ghostscript returned
\* and whatever it returned; after a False return the restored merge output
\* is back under merged.pdf, merged.tmp.pdf is gone, and that restored file
\* is what encrypt_pdf reads.
C14_EncryptIffPassword ==
    \A r \in ReqIds :
        form[r].compress = "ghostscript" =>
            /\ HasCall(r, "encrypt_pdf")
               => (Truthy(form[r].password) /\ (ReturnedTrue(r) \/ ReturnedFalse(r)))
            /\ PastEncrypt(r) => (HasCall(r, "encrypt_pdf") <=> Truthy(form[r].password))
            /\ (pc[r] = "encrypt" /\ ReturnedFalse(r)) =>
                 LET merged == Canon(dirs, merged_pdf_path(r))
                 IN  /\ merged \in DOMAIN fs
                     /\ Canon(dirs, temp_merged(r)) \notin DOMAIN fs
                     /\ fs[merged].pdf /\ fs[merged].gs = "" /\ fs[merged].enc = ""
            /\ (pc[r] = "return" /\ ReturnedFalse(r)) =>
                 LET final == fs[Canon(dirs, merged_pdf_path(r))]
                 IN  /\ final.gs = ""
                     /\ final.enc = (IF Truthy(form[r].password)
                                     THEN form[r].password.str ELSE "")

C14_Witness ==
    \E r \in ReqIds :
        /\ pc[r] = "return" /\ form[r].compress = "ghostscript"
        /\ tool[r] = "exit_nonzero_partial" /\ form[r].password = Some("pw")
        /\ HasCall(r, "encrypt_pdf")
        /\ fs[Canon(dirs, merged_pdf_path(r))].enc = "pw"

\* C15: whenever compress_with_ghostscript returned True the output file
\* exists, and a request at line 90 has exactly merged.pdf in its output
\* directory, no merged.tmp.pdf and no merged.encrypted.pdf.
C15_OutputKeptUnderCanonicalName ==
    \A r \in ReqIds :
        /\ (pc[r] = "encrypt" /\ ReturnedTrue(r))
           => Canon(dirs, merged_pdf_path(r)) \in DOMAIN fs
        /\ pc[r] \in {"return", "send"}
           => listdir(fs, dirs, Append(WsDir(r), OutputName)) = {MergedName}

\* the position of a call in the pipeline of lines 52-88
StageRank(fn) ==
    CASE fn = "open" -> 1
      [] fn = "merge_pdfs" -> 2
      [] fn = "compress_with_ghostscript" -> 3
      [] fn = "encrypt_pdf" -> 4

\* how many times request r has called fn
CountCalls(r, fn) == Cardinality({k \in 1..Len(calls[r]) : calls[r][k].fn = fn})

\* C16: the calls of one request are made in the order staging, merging,
\* external compression, post-compression encryption, and the response comes
\* after them; merge_pdfs is called at most once, exactly once in a request
\* that gets past merging, and only after every upload was staged; in
\* ghostscript mode that call has no password and no builtin compression, and
\* encrypt_pdf is called only after compress_with_ghostscript.
C16_StagesInOrder ==
    \A r \in ReqIds :
        /\ \A j, k \in 1..Len(calls[r]) :
               j < k => /\ StageRank(calls[r][j].fn) <= StageRank(calls[r][k].fn)
                        /\ (calls[r][j].fn = calls[r][k].fn => calls[r][j].fn = "open")
        /\ CountCalls(r, "merge_pdfs") <= 1
        /\ (pc[r] \in {"compress", "encrypt"} \/ PastEncrypt(r) \/ response[r].status = 200)
           => CountCalls(r, "merge_pdfs") = 1
        /\ HasCall(r, "merge_pdfs") => Written(r) = Len(form[r].files)
        /\ pc[r] \in {"stage", "list", "merge"} => ~HasCall(r, "merge_pdfs")
        /\ pc[r] = "compress" => ~HasCall(r, "compress_with_ghostscript")
        /\ pc[r] \in {"compress", "encrypt"} => ~HasCall(r, "encrypt_pdf")
        /\ form[r].compress = "ghostscript" =>
              /\ \A k \in 1..Len(calls[r]) :
                    calls[r][k].fn = "merge_pdfs"
                    => (~calls[r][k].compress_builtin /\ calls[r][k].password = None)
              /\ HasCall(r, "encrypt_pdf") => HasCall(r, "compress_with_ghostscript")
              /\ PastEncrypt(r) => HasCall(r, "compress_with_ghostscript")
        /\ form[r].compress # "ghostscript" =>
              (~HasCall(r, "compress_with_ghostscript") /\ ~HasCall(r, "encrypt_pdf"))

C16_Witness ==
    \E r \in ReqIds :
        /\ response[r].status = 200
        /\ form[r].compress = "ghostscript" /\ form[r].password = Some("pw")
        /\ Len(form[r].files) = 2
        /\ calls[r] = << Call("open", FALSE, None), Call("open", FALSE, None),
                         Call("merge_pdfs", FALSE, None),
                         Call("compress_with_ghostscript", FALSE, None),
                         Call("encrypt_pdf", FALSE, Some("pw")) >>

\* request r's staging (open/write), merge_pdfs or encrypt_pdf raised an
\* exception that line 92 catches
StageRaised(r) ==
    /\ exc[r] \in {OSError, PdfReadError}
    /\ calls[r] # <<>>
    /\ calls[r][Len(calls[r])].fn \in {"open", "merge_pdfs", "encrypt_pdf"}

\* C17: once staging, merging or encryption has raised, also a merge that
\* failed after writing part of merged.pdf, the request makes no further call,
\* no file is sent, the partial file is gone when the request ends, and the
\* response is HTTP 500.
C17_FailureAnswered500 ==
    /\ [](\A r \in ReqIds :
            StageRaised(r) =>
                /\ pc[r] \in {"except", "raise", "done"}
                /\ response[r].body = Garbage
                /\ response[r].status \in {0, 500}
                /\ Done(r) => /\ response[r].status = 500
                              /\ Canon(dirs, merged_pdf_path(r)) \notin DOMAIN fs)
    /\ [][\A r \in ReqIds :
            StageRaised(r) => (calls'[r] = calls[r] /\ exc'[r] = exc[r])]_vars

C17_Witness ==
    \E r \in ReqIds :
        /\ Done(r) /\ exc[r] = OSError
        /\ calls[r][Len(calls[r])].fn = "merge_pdfs"
        /\ response[r] = [status |-> 500, body |-> Garbage]

\* C18: every file the staging loop has written lies inside the request's own
\* input directory, whatever the accepted upload names are; nothing is
\* written elsewhere in the workspace or outside it.
C18_StagedInsideInputDir ==
    \A r \in ReqIds :
        pc[r] \in {"stage", "list", "merge"} =>
            \A p \in DOMAIN fs :
                \/ IsPrefix(Append(WsDir(r), InputName), p)
                \/ \E o \in ReqIds \ {r} : IsPrefix(WsDir(o), p) /\ pc[o] # "idle"
====
